---- MODULE Spec2Model ----
(***************************************************************************)
(* Model of src/app.py: the "Process Data" handler of the NADAC pricing    *)
(* tool and its core routine process_files_with_adjusted_filtering, which  *)
(* joins a product table, a price table and a reimbursement table on a     *)
(* zero-padded product identifier.                                         *)
(*                                                                         *)
(* Encoding of a DataFrame: [columns |-> set of column names,              *)
(*                           rows    |-> sequence of rows],                *)
(* a row being a function from the table's columns to cells.  Row i of the *)
(* sequence carries index label i.                                         *)
(*   identifier cell : [kind, n, s]  an int n, a float n.0 or a string s   *)
(*                     (a string is a sequence of one-character strings)   *)
(*   numeric cell    : [kind, val]   a number (in cents), NaN or None       *)
(*   text cell       : a string, NaN being the cell without a value        *)
(***************************************************************************)
EXTENDS Integers, Sequences, FiniteSets, TLC

VARIABLES
    top_100_file, nadac_file, reimbursement_file,   \* the uploaded tables as the caller read them
    top_100_data, nadac_data, reimbursement_data,   \* the DataFrames handed to the routine
    pc,                                             \* position of the handler
    st_error,                                       \* <<file_name, column>> shown by st.error, or <<>>
    output_data                                     \* the returned table (sequence of output rows)

vars == <<top_100_file, nadac_file, reimbursement_file,
          top_100_data, nadac_data, reimbursement_data,
          pc, st_error, output_data>>

----------------------------------------------------------------------------
(* Bounds of the model *)

MaxTop == 2
MaxNadac == 2
MaxReimb == 2

----------------------------------------------------------------------------
(* Cells *)

IntV(n) == [kind |-> "int", n |-> n, s |-> <<>>]
FloatV(n) == [kind |-> "float", n |-> n, s |-> <<>>]
StrV(s) == [kind |-> "str", n |-> 0, s |-> s]

Num(v) == [kind |-> "num", val |-> v]
NaNf == [kind |-> "nan", val |-> 0]
None == [kind |-> "none", val |-> 0]

NaN == "NaN"
NotAvailable == "Not Available"

----------------------------------------------------------------------------
(* Column names *)

COL_NDC == "NDC"
COL_DRUG == "Drug"
COL_NADAC == "NADAC Per Unit"
COL_DISP == "Dispensed Item NDC"
COL_REMIT == "Primary Remit Amount"
COL_BIN == "Primary Third Party Bin"
COL_PCN == "Primary Third Party PCN"
COL_NET == "Primary Network Reimbursement"

TopColumns == {COL_NDC, COL_DRUG}
NadacColumns == {COL_NDC, COL_NADAC}
ReimbColumns == {COL_DISP, COL_REMIT, COL_BIN, COL_PCN, COL_NET}

\* required_columns without the amount column of the reimbursement table
required_columns_without_remit ==
    << <<"Top 100", COL_NDC>>, <<"Top 100", COL_DRUG>>,
       <<"NADAC", COL_NDC>>, <<"NADAC", COL_NADAC>>,
       <<"Reimbursement", COL_DISP>> >>

\* required_columns, flattened in the iteration order of the two nested loops
required_columns ==
    << <<"Top 100", COL_NDC>>, <<"Top 100", COL_DRUG>>,
       <<"NADAC", COL_NDC>>, <<"NADAC", COL_NADAC>>,
       <<"Reimbursement", COL_DISP>>, <<"Reimbursement", COL_REMIT>> >>

----------------------------------------------------------------------------
(* String conversions *)

NDC_WIDTH == 11

DigitChars == <<"0", "1", "2", "3", "4", "5", "6", "7", "8", "9">>

RECURSIVE Digits(_)
Digits(n) ==
    IF n < 10 THEN <<DigitChars[n + 1]>>
    ELSE Append(Digits(n \div 10), DigitChars[(n % 10) + 1])

\* Series.astype(str) on one cell
astype_str(v) ==
    CASE v.kind = "int" -> Digits(v.n)
      [] v.kind = "float" -> Digits(v.n) \o <<".", "0">>
      [] OTHER -> v.s

\* a zfill that cuts a longer string down to its last width characters
zfill_truncating(s, width) ==
    IF Len(s) >= width THEN SubSeq(s, Len(s) - width + 1, Len(s))
    ELSE [i \in 1..width |->
            IF i <= width - Len(s) THEN "0" ELSE s[i - (width - Len(s))]]

\* Series.str.zfill(width) on one string
zfill(s, width) ==
    IF Len(s) >= width THEN s
    ELSE [i \in 1..width |->
            IF i <= width - Len(s) THEN "0" ELSE s[i - (width - Len(s))]]

\* Series.str.split('.').str[0] on one string: the part before the first '.'
split_first(s) ==
    LET dots == {i \in 1..Len(s) : s[i] = "."}
    IN  IF dots = {} THEN s
        ELSE SubSeq(s, 1, (CHOOSE i \in dots : \A j \in dots : i <= j) - 1)

----------------------------------------------------------------------------
(* The steps of process_files_with_adjusted_filtering *)

\* eval(f"{file_name.lower().replace(' ', '_')}_data"): the table a display name stands for
data_of(file_name, top, nadac, reimb) ==
    CASE file_name = "Top 100" -> top
      [] file_name = "NADAC" -> nadac
      [] OTHER -> reimb

\* positions of required_columns whose column is not in its table
missing_columns(top, nadac, reimb) ==
    {k \in DOMAIN required_columns :
        required_columns[k][2] \notin data_of(required_columns[k][1], top, nadac, reimb).columns}

\* data[col] = data[col].astype(str).str.zfill(11)
standardize_ndc(data, col) ==
    [data EXCEPT !.rows =
        [i \in DOMAIN data.rows |->
            [data.rows[i] EXCEPT ![col] = StrV(zfill(astype_str(@), NDC_WIDTH))]]]

\* data[col] = data[col].astype(str).str.split('.').str[0].str.zfill(11)
standardize_dispensed_ndc(data, col) ==
    [data EXCEPT !.rows =
        [i \in DOMAIN data.rows |->
            [data.rows[i] EXCEPT ![col] =
                StrV(zfill(split_first(astype_str(@)), NDC_WIDTH))]]]

\* Series.fillna(value) on one numeric cell
fillna(v, value) == IF v.kind = "nan" THEN Num(value) ELSE v

\* a filter that keeps the rows whose amount, null as 0, is >= 0
valid_reimbursement_data_nonneg(reimb) ==
    {i \in DOMAIN reimb.rows :
        (IF reimb.rows[i][COL_REMIT].kind = "nan" THEN 0 ELSE reimb.rows[i][COL_REMIT].val) >= 0}

\* the index labels of reimbursement_data[reimbursement_data[amount].fillna(0) > 0]
valid_reimbursement_data(reimb) ==
    {i \in DOMAIN reimb.rows : fillna(reimb.rows[i][COL_REMIT], 0).val > 0}

\* a lookup in which the first row of a key stays
RECURSIVE nadac_lookup_first_wins(_)
nadac_lookup_first_wins(rows) ==
    IF rows = <<>> THEN [k \in {} |-> [kind |-> "none", val |-> 0]]
    ELSE LET d == nadac_lookup_first_wins(SubSeq(rows, 1, Len(rows) - 1))
             r == rows[Len(rows)]
         IN  [k \in DOMAIN d \cup {r[COL_NDC]} |->
                 IF k \in DOMAIN d THEN d[k] ELSE r[COL_NADAC]]

\* nadac_data.set_index("NDC")["NADAC Per Unit"].to_dict(): a later row overwrites its key
RECURSIVE nadac_lookup(_)
nadac_lookup(rows) ==
    IF rows = <<>> THEN [k \in {} |-> None]
    ELSE LET d == nadac_lookup(SubSeq(rows, 1, Len(rows) - 1))
             r == rows[Len(rows)]
         IN  [k \in DOMAIN d \cup {r[COL_NDC]} |->
                 IF k = r[COL_NDC] THEN r[COL_NADAC] ELSE d[k]]

\* dict.get(key, default)
dict_get(d, key, default) == IF key \in DOMAIN d THEN d[key] ELSE default

\* Series.get(key, default) on a row: the default only when the label is absent
series_get(row, key, default) == IF key \in DOMAIN row THEN row[key] ELSE default

\* valid_reimbursement_data[valid_reimbursement_data["Dispensed Item NDC"] == ndc]
reimbursement_match(reimb, ndc) ==
    {i \in valid_reimbursement_data(reimb) : reimb.rows[i][COL_DISP] = ndc}

\* a sort in ascending order: a row holding the smallest amount comes first
sort_values_first_ascending(reimb, match) ==
    {i \in match :
        \A j \in match : reimb.rows[i][COL_REMIT].val <= reimb.rows[j][COL_REMIT].val}

\* sort_values(by=amount, ascending=False).iloc[0]: the default sort kind is not
\* stable, so any row holding the largest amount can come first
sort_values_first(reimb, match) ==
    {i \in match :
        \A j \in match : reimb.rows[j][COL_REMIT].val <= reimb.rows[i][COL_REMIT].val}

\* the identifiers of product rows that have a match
matched_ndcs(top, reimb) ==
    {top.rows[i][COL_NDC] : i \in {j \in DOMAIN top.rows :
        reimbursement_match(reimb, top.rows[j][COL_NDC]) # {}}}

\* the outcomes of the sort, one per matched identifier
best_matches(top, reimb) ==
    {f \in [matched_ndcs(top, reimb) -> DOMAIN reimb.rows] :
        \A k \in DOMAIN f : f[k] \in sort_values_first(reimb, reimbursement_match(reimb, k))}

\* a loop body that leaves Reimbursement empty when there is no match
output_row_default_none(row, lookup, reimb, best) ==
    LET ndc == row[COL_NDC]
        matched == {i \in DOMAIN reimb.rows :
                       /\ reimb.rows[i][COL_REMIT].kind = "num"
                       /\ reimb.rows[i][COL_REMIT].val > 0
                       /\ reimb.rows[i][COL_DISP] = ndc} # {}
        best_match == reimb.rows[best[ndc]]
    IN  [DrugName |-> row[COL_DRUG],
         NDC |-> ndc,
         NADAC |-> IF ndc \in DOMAIN lookup THEN lookup[ndc] ELSE None,
         Bin |-> IF matched /\ COL_BIN \in DOMAIN best_match THEN best_match[COL_BIN]
                 ELSE NotAvailable,
         PCN |-> IF matched /\ COL_PCN \in DOMAIN best_match THEN best_match[COL_PCN]
                 ELSE NotAvailable,
         Network |-> IF matched /\ COL_NET \in DOMAIN best_match THEN best_match[COL_NET]
                     ELSE NotAvailable,
         Reimbursement |-> IF matched THEN best_match[COL_REMIT] ELSE None,
         Price |-> None]

\* body of the loop over top_100_data.iterrows()
output_row(row, lookup, reimb, best) ==
    LET ndc == row[COL_NDC]
        matched == reimbursement_match(reimb, ndc) # {}
        best_match == reimb.rows[best[ndc]]
    IN  [DrugName |-> row[COL_DRUG],
         NDC |-> ndc,
         NADAC |-> dict_get(lookup, ndc, None),
         Bin |-> IF matched THEN series_get(best_match, COL_BIN, NotAvailable)
                 ELSE NotAvailable,
         PCN |-> IF matched THEN series_get(best_match, COL_PCN, NotAvailable)
                 ELSE NotAvailable,
         Network |-> IF matched THEN series_get(best_match, COL_NET, NotAvailable)
                     ELSE NotAvailable,
         Reimbursement |-> IF matched THEN series_get(best_match, COL_REMIT, Num(0))
                           ELSE Num(0),
         Price |-> None]

\* a loop that emits a row only for a product with a reimbursement match
output_rows_matched_only(top, nadac, reimb, best) ==
    LET all == [i \in DOMAIN top.rows |->
                   output_row(top.rows[i], nadac_lookup(nadac.rows), reimb, best)]
        Matched(o) == o.Reimbursement.val > 0
    IN  SelectSeq(all, Matched)

\* output_rows after the loop, in the order of the product rows
output_rows(top, nadac, reimb, best) ==
    [i \in DOMAIN top.rows |->
        output_row(top.rows[i], nadac_lookup(nadac.rows), reimb, best)]

----------------------------------------------------------------------------
(* Input tables *)

NDC_DASHED == <<"1", "2", "3", "4", "5", "-", "6", "7", "8", "9", "-", "0", "1">>
NDC_PADDED == <<"0", "0", "0", "0", "0", "0", "0", "0", "1", "2", "3">>

TopNDCs == {IntV(123), IntV(456), StrV(NDC_DASHED)}
NadacNDCs == {IntV(123), StrV(NDC_PADDED), IntV(456)}
ReimbNDCs == {FloatV(123), StrV(NDC_DASHED)}
Drugs == {"Aspirin", "Ibuprofen"}
Prices == {NaNf, Num(45), Num(60)}
Amounts == {NaNf, Num(0), Num(-100), Num(800), Num(1250)}
Bins == {NaN, "610014"}
PCNs == {NaN, "PCN1"}
Networks == {NaN, "NET1"}

TopRow(ndc, drug) == [c \in TopColumns |-> IF c = COL_NDC THEN ndc ELSE drug]
NadacRow(ndc, price) == [c \in NadacColumns |-> IF c = COL_NDC THEN ndc ELSE price]
ReimbRow(ndc, amount, bin, pcn, net) ==
    [c \in ReimbColumns |->
        CASE c = COL_DISP -> ndc
          [] c = COL_REMIT -> amount
          [] c = COL_BIN -> bin
          [] c = COL_PCN -> pcn
          [] OTHER -> net]

TopRows == {TopRow(n, d) : n \in TopNDCs, d \in Drugs}
NadacRows == {NadacRow(n, p) : n \in NadacNDCs, p \in Prices}
NDC_OTHER == StrV(NDC_DASHED)

\* the rows of the product 123 in every combination, and one row of another product
ReimbRows ==
    {ReimbRow(FloatV(123), a, b, p, w) : a \in Amounts, b \in Bins, p \in PCNs, w \in Networks}
    \cup {ReimbRow(NDC_OTHER, Num(2000), "003858", "PCN2", "NET2")}

Restrict(row, columns) == [c \in columns |-> row[c]]

\* the columns, or the columns less one
ColumnChoices(columns) == {columns} \cup {columns \ {c} : c \in columns}

\* the rows a table over the columns C can hold
RowsOver(rows, C) == {Restrict(r, C) : r \in rows}

\* the reference tables: the example scenario of the specification
RefTop ==
    [columns |-> TopColumns,
     rows |-> <<TopRow(IntV(123), "Aspirin"), TopRow(StrV(NDC_DASHED), "Ibuprofen")>>]
RefNadac ==
    [columns |-> NadacColumns, rows |-> <<NadacRow(StrV(NDC_PADDED), Num(45))>>]
RefReimb ==
    [columns |-> ReimbColumns,
     rows |-> <<ReimbRow(FloatV(123), Num(1250), NaN, NaN, "NET1"),
                ReimbRow(StrV(NDC_PADDED), Num(800), "610014", NaN, NaN)>>]

----------------------------------------------------------------------------
(* The handler *)

\* One of the three tables ranges over every table up to its bound, the other
\* two are the reference tables.
Init ==
    /\ \/ /\ \E C \in ColumnChoices(TopColumns), n \in 0..MaxTop :
                \E t \in [1..n -> RowsOver(TopRows, C)] :
                    top_100_data = [columns |-> C, rows |-> t]
          /\ nadac_data = RefNadac
          /\ reimbursement_data = RefReimb
       \/ /\ top_100_data = RefTop
          /\ \E C \in ColumnChoices(NadacColumns), n \in 0..MaxNadac :
                \E t \in [1..n -> RowsOver(NadacRows, C)] :
                    nadac_data = [columns |-> C, rows |-> t]
          /\ reimbursement_data = RefReimb
       \/ /\ top_100_data = RefTop
          /\ nadac_data = RefNadac
          /\ \E C \in ColumnChoices(ReimbColumns), n \in 0..MaxReimb :
                \E t \in [1..n -> RowsOver(ReimbRows, C)] :
                    reimbursement_data = [columns |-> C, rows |-> t]
    /\ top_100_file = top_100_data
    /\ nadac_file = nadac_data
    /\ reimbursement_file = reimbursement_data
    /\ pc = "validate"
    /\ st_error = <<>>
    /\ output_data = <<>>

\* lines 16-20: the first missing required column is reported and the script stops
SchemaStop ==
    /\ pc = "validate"
    /\ missing_columns(top_100_data, nadac_data, reimbursement_data) # {}
    /\ LET miss == missing_columns(top_100_data, nadac_data, reimbursement_data)
           k == CHOOSE m \in miss : \A o \in miss : m <= o
       IN  st_error' = required_columns[k]
    /\ pc' = "stopped"
    /\ UNCHANGED <<top_100_file, nadac_file, reimbursement_file,
                   top_100_data, nadac_data, reimbursement_data, output_data>>

\* lines 16-20: every required column is present
SchemaPass ==
    /\ pc = "validate"
    /\ missing_columns(top_100_data, nadac_data, reimbursement_data) = {}
    /\ pc' = "standardize"
    /\ UNCHANGED <<top_100_file, nadac_file, reimbursement_file,
                   top_100_data, nadac_data, reimbursement_data, st_error, output_data>>

\* lines 22-31: the identifier columns are rewritten in the caller's tables
Standardize ==
    /\ pc = "standardize"
    /\ top_100_data' = standardize_ndc(top_100_data, COL_NDC)
    /\ nadac_data' = standardize_ndc(nadac_data, COL_NDC)
    /\ reimbursement_data' = standardize_dispensed_ndc(reimbursement_data, COL_DISP)
    /\ pc' = "join"
    /\ UNCHANGED <<top_100_file, nadac_file, reimbursement_file, st_error, output_data>>

\* lines 33-82 and 108-112: filter, lookup, one output row per product row, return
Join ==
    /\ pc = "join"
    /\ \E best \in best_matches(top_100_data, reimbursement_data) :
          output_data' = output_rows(top_100_data, nadac_data, reimbursement_data, best)
    /\ pc' = "done"
    /\ UNCHANGED <<top_100_file, nadac_file, reimbursement_file,
                   top_100_data, nadac_data, reimbursement_data, st_error>>

Next == SchemaStop \/ SchemaPass \/ Standardize \/ Join

Spec == Init /\ [][Next]_vars

----------------------------------------------------------------------------
(* Properties.  They are stated over the uploaded tables (top_100_file,     *)
(* nadac_file, reimbursement_file) and the returned output_data.           *)

\* the normalized identifier of product row i, price row j, reimbursement row j
TopNorm(i) == StrV(zfill(astype_str(top_100_file.rows[i][COL_NDC]), NDC_WIDTH))
NadacNorm(j) == StrV(zfill(astype_str(nadac_file.rows[j][COL_NDC]), NDC_WIDTH))
ReimbNorm(j) ==
    StrV(zfill(split_first(astype_str(reimbursement_file.rows[j][COL_DISP])), NDC_WIDTH))

Amount(j) == reimbursement_file.rows[j][COL_REMIT]

\* the reimbursement rows with a positive amount and the identifier of product row i
PositiveRows(i) ==
    {j \in DOMAIN reimbursement_file.rows :
        /\ Amount(j).kind = "num"
        /\ Amount(j).val > 0
        /\ ReimbNorm(j) = TopNorm(i)}

MaxAmount(i) ==
    CHOOSE a \in {Amount(j).val : j \in PositiveRows(i)} :
        \A j \in PositiveRows(i) : Amount(j).val <= a

TiedMax(i) == {j \in PositiveRows(i) : Amount(j).val = MaxAmount(i)}

HasValue(row, col) == col \in DOMAIN row /\ row[col] # NaN

\* v is the value of the column on the row, or stands for its absence
FieldFrom(v, row, col) ==
    IF HasValue(row, col) THEN v = row[col] ELSE v \in {NaN, NotAvailable}

Defaulted(row, col) == IF HasValue(row, col) THEN row[col] ELSE NotAvailable

IsDefault(o) ==
    /\ o.Bin = NotAvailable
    /\ o.PCN = NotAvailable
    /\ o.Network = NotAvailable
    /\ o.Reimbursement = Num(0)

\* C1: the output has one record per product row, in the same order; record i
\* carries the Drug name and the normalized NDC of product row i, matched or not.
C1_OneRowPerProduct ==
    pc = "done" =>
        /\ Len(output_data) = Len(top_100_file.rows)
        /\ \A i \in DOMAIN top_100_file.rows :
              /\ output_data[i].DrugName = top_100_file.rows[i][COL_DRUG]
              /\ output_data[i].NDC = TopNorm(i)

\* two product rows share an identifier that has neither a price nor a reimbursement
C1_Witness ==
    /\ pc = "done"
    /\ Len(top_100_file.rows) = 2
    /\ Len(output_data) = 2
    /\ output_data[1].NDC = output_data[2].NDC
    /\ output_data[1].DrugName # output_data[2].DrugName
    /\ output_data[1].NADAC = None
    /\ IsDefault(output_data[2])

\* C2: every output row is either the no-match default, when its product has no
\* reimbursement row with a positive amount, or taken from such a row; a row whose
\* amount is null, zero or negative is never the selected one.
C2_InvalidAmountNeverSelected ==
    pc = "done" =>
        \A i \in DOMAIN top_100_file.rows :
            \/ PositiveRows(i) = {} /\ IsDefault(output_data[i])
            \/ \E j \in PositiveRows(i) :
                  /\ output_data[i].Reimbursement = Amount(j)
                  /\ FieldFrom(output_data[i].Bin, reimbursement_file.rows[j], COL_BIN)
                  /\ FieldFrom(output_data[i].PCN, reimbursement_file.rows[j], COL_PCN)
                  /\ FieldFrom(output_data[i].Network, reimbursement_file.rows[j], COL_NET)

\* the only rows of the first product have a zero and a null amount and a real Bin
C2_Witness ==
    /\ pc = "done"
    /\ Len(top_100_file.rows) >= 1
    /\ Len(reimbursement_file.rows) = 2
    /\ ReimbNorm(1) = TopNorm(1)
    /\ ReimbNorm(2) = TopNorm(1)
    /\ Amount(1) = Num(0)
    /\ Amount(2) = NaNf
    /\ HasValue(reimbursement_file.rows[1], COL_BIN)
    /\ HasValue(reimbursement_file.rows[2], COL_BIN)
    /\ IsDefault(output_data[1])

\* C3: for a product with at least one positive-amount row of its identifier, the
\* output Reimbursement is the largest amount over those rows, and is > 0.
C3_MaximumAmount ==
    pc = "done" =>
        \A i \in DOMAIN top_100_file.rows :
            PositiveRows(i) # {} =>
                /\ output_data[i].Reimbursement = Num(MaxAmount(i))
                /\ output_data[i].Reimbursement.val > 0

\* two positive rows of the product, the smaller amount first
C3_Witness ==
    /\ pc = "done"
    /\ \E i \in DOMAIN top_100_file.rows :
          \E j1 \in PositiveRows(i), j2 \in PositiveRows(i) :
              /\ j1 < j2
              /\ Amount(j1).val < Amount(j2).val
              /\ output_data[i].Reimbursement = Amount(j2)

C5_FieldsDefaultedIndependently ==
    pc = "done" =>
        \A i \in DOMAIN top_100_file.rows :
            /\ output_data[i].Bin # NaN
            /\ output_data[i].PCN # NaN
            /\ output_data[i].Network # NaN
            /\ PositiveRows(i) # {} =>
                  \E j \in TiedMax(i) :
                      /\ output_data[i].Bin = Defaulted(reimbursement_file.rows[j], COL_BIN)
                      /\ output_data[i].PCN = Defaulted(reimbursement_file.rows[j], COL_PCN)
                      /\ output_data[i].Network = Defaulted(reimbursement_file.rows[j], COL_NET)

\* the six required columns, each with the display name of its table
RequiredOf ==
    {<<"Top 100", "NDC">>, <<"Top 100", "Drug">>,
     <<"NADAC", "NDC">>, <<"NADAC", "NADAC Per Unit">>,
     <<"Reimbursement", "Dispensed Item NDC">>, <<"Reimbursement", "Primary Remit Amount">>}

FileOf(name) ==
    CASE name = "Top 100" -> top_100_file
      [] name = "NADAC" -> nadac_file
      [] name = "Reimbursement" -> reimbursement_file

MissingOf == {r \in RequiredOf : r[2] \notin FileOf(r[1]).columns}

\* C6: when a required column is missing the run stops in a schema error that
\* names a missing column and its table, before any identifier is rewritten, and
\* nothing is returned; without a missing column there is no schema error.
C6_SchemaError ==
    /\ MissingOf # {} => pc \in {"validate", "stopped"}
    /\ pc = "stopped" =>
          /\ st_error \in MissingOf
          /\ top_100_data = top_100_file
          /\ nadac_data = nadac_file
          /\ reimbursement_data = reimbursement_file
          /\ output_data = <<>>
    /\ pc # "stopped" => st_error = <<>>

\* the amount column is the one missing, in a table that has rows
C6_Witness ==
    /\ pc = "stopped"
    /\ st_error = <<"Reimbursement", "Primary Remit Amount">>
    /\ MissingOf = {<<"Reimbursement", "Primary Remit Amount">>}
    /\ reimbursement_file.rows # <<>>

\* C7: a product without a positive-amount row of its identifier gets Bin, PCN
\* and Network "Not Available" and Reimbursement 0.0, and Reimbursement 0.0
\* appears on no other row.
C7_NoMatchDefaults ==
    pc = "done" =>
        \A i \in DOMAIN top_100_file.rows :
            /\ PositiveRows(i) = {} => IsDefault(output_data[i])
            /\ output_data[i].Reimbursement = Num(0) => PositiveRows(i) = {}

\* one product without any row of its identifier beside a matched product
C7_Witness ==
    /\ pc = "done"
    /\ \E i \in DOMAIN top_100_file.rows, k \in DOMAIN top_100_file.rows :
          /\ \A j \in DOMAIN reimbursement_file.rows : ReimbNorm(j) # TopNorm(i)
          /\ IsDefault(output_data[i])
          /\ PositiveRows(k) # {}
          /\ output_data[k].Reimbursement.val > 0

\* the price rows with the identifier of product row i
PriceRows(i) == {j \in DOMAIN nadac_file.rows : NadacNorm(j) = TopNorm(i)}

\* C8: NADAC is the unit price of the last price row with the product's normalized
\* identifier, and None when there is no such row.
C8_LastPriceWins ==
    pc = "done" =>
        \A i \in DOMAIN top_100_file.rows :
            IF PriceRows(i) = {} THEN output_data[i].NADAC = None
            ELSE LET j == CHOOSE m \in PriceRows(i) : \A o \in PriceRows(i) : o <= m
                 IN  output_data[i].NADAC = nadac_file.rows[j][COL_NADAC]

\* two price rows of one product, written differently, with different prices,
\* beside a product without a price
C8_Witness ==
    /\ pc = "done"
    /\ \E i \in DOMAIN top_100_file.rows, k \in DOMAIN top_100_file.rows :
          /\ PriceRows(i) = {1, 2}
          /\ nadac_file.rows[1][COL_NDC] # nadac_file.rows[2][COL_NDC]
          /\ nadac_file.rows[1][COL_NADAC] = Num(45)
          /\ nadac_file.rows[2][COL_NADAC] = Num(60)
          /\ output_data[i].NADAC = Num(60)
          /\ PriceRows(k) = {}
          /\ output_data[k].NADAC = None

\* every identifier held by the three tables and by the output
AllIdentifiers ==
    {top_100_data.rows[i][COL_NDC] : i \in DOMAIN top_100_data.rows}
    \cup {nadac_data.rows[i][COL_NDC] : i \in DOMAIN nadac_data.rows}
    \cup {reimbursement_data.rows[i][COL_DISP] : i \in DOMAIN reimbursement_data.rows}
    \cup {output_data[i].NDC : i \in DOMAIN output_data}

\* C9 as stated: after normalization every identifier has exactly 11 characters.
C9_ExactlyElevenCharacters ==
    pc \in {"join", "done"} =>
        \A v \in AllIdentifiers : v.kind = "str" /\ Len(v.s) = NDC_WIDTH

\* t is s with zeros put in front up to the width, or s itself when s is as
\* long as the width or longer
PaddedFrom(t, s) ==
    /\ t.kind = "str"
    /\ Len(t.s) = (IF Len(s) < NDC_WIDTH THEN NDC_WIDTH ELSE Len(s))
    /\ \A k \in 1..Len(t.s) :
          t.s[k] = (IF k <= Len(t.s) - Len(s) THEN "0" ELSE s[k - (Len(t.s) - Len(s))])

\* C9 amended: after normalization every identifier is its string form (for a
\* reimbursement row the part before the first '.') with zeros in front up to 11
\* characters, and the string form itself, not cut, when that is longer.
C9_AtLeastElevenCharacters ==
    pc \in {"join", "done"} =>
        /\ \A i \in DOMAIN top_100_file.rows :
              PaddedFrom(top_100_data.rows[i][COL_NDC],
                         astype_str(top_100_file.rows[i][COL_NDC]))
        /\ \A i \in DOMAIN nadac_file.rows :
              PaddedFrom(nadac_data.rows[i][COL_NDC],
                         astype_str(nadac_file.rows[i][COL_NDC]))
        /\ \A i \in DOMAIN reimbursement_file.rows :
              PaddedFrom(reimbursement_data.rows[i][COL_DISP],
                         split_first(astype_str(reimbursement_file.rows[i][COL_DISP])))
        /\ \A i \in DOMAIN output_data :
              PaddedFrom(output_data[i].NDC, astype_str(top_100_file.rows[i][COL_NDC]))

\* the output holds a padded identifier and one of 13 characters
C9_Witness ==
    /\ pc = "done"
    /\ \E i \in DOMAIN output_data, k \in DOMAIN output_data :
          /\ top_100_file.rows[i][COL_NDC] = IntV(123)
          /\ output_data[i].NDC = StrV(NDC_PADDED)
          /\ Len(output_data[k].NDC.s) > NDC_WIDTH
    /\ \E j \in DOMAIN reimbursement_file.rows :
          /\ reimbursement_file.rows[j][COL_DISP] = FloatV(123)
          /\ reimbursement_data.rows[j][COL_DISP] = StrV(NDC_PADDED)

\* C10: a run leaves the caller's three tables as they were.
C10_InputsUnchanged ==
    /\ top_100_data = top_100_file
    /\ nadac_data = nadac_file
    /\ reimbursement_data = reimbursement_file

====
